---------------------------- MODULE Spec2Model ----------------------------
(***************************************************************************)
(* The spinner factories of alive_progress/animations/spinners.py.         *)
(*                                                                         *)
(* A text is a sequence of one-character strings ("ab" is <<"a", "b">>).   *)
(* Python's None and 0 are both falsy wherever the code tests a length, a  *)
(* block or a width, so both are the number 0 here.  A raised exception is *)
(* the value [exc |-> <its type>].                                         *)
(*                                                                         *)
(* A design is a call expression such as scrolling_spinner_factory("x", 5);*)
(* Construct evaluates it to a factory (the inner_factory closure with its *)
(* natural), Bind calls the factory with a width and gives a spinner (the  *)
(* inner_spinner closure with its cycles), Call calls the spinner and gives*)
(* a generator, Pull is next() on a generator and Play is next() on a      *)
(* spinner_player of the spinner.                                          *)
(*                                                                         *)
(* alive_progress/animations/utils.py (repeating, spinner_player and the   *)
(* two sliding windows) is imported by spinners.py and is not among the    *)
(* source files: those four are modelled from the specification's          *)
(* section 6.                                                              *)
(***************************************************************************)
EXTENDS Integers, Sequences, FiniteSets, TLC

VARIABLES
    design,         \* the call expression of the style under test
    length_actual,  \* the width every Bind passes (0: omitted)
    factory,        \* "none", or what Construct returned (a factory or an exception)
    heap,           \* the sliding-window generators made so far, by identity
    spinner,        \* per slot: "none", or what Bind returned (a spinner or an exception)
    player,         \* per slot: the generator the slot's spinner_player is inside of
    stream,         \* per slot: the frames read from the spinner_player
    fills,          \* per slot: per frame read, the sub-frames the compound zipped
    gens,           \* per slot: the generators made by calling the spinner directly
    outs,           \* per slot: per such generator, the frames read from it
    drawn           \* per slot: every frame read through gens, in the order read

vars == <<design, length_actual, factory, heap, spinner, player, stream, fills,
          gens, outs, drawn>>

-----------------------------------------------------------------------------
(* Bounds of the model. *)

\* widths passed to Bind are 0 (omitted) .. MaxWidth
MaxWidth == 4
\* frames read from one spinner_player
MaxTicks == 8
\* frames read from each of two spinner_players that are interleaved
MaxPairTicks == 3
\* direct calls of one spinner, and next() calls on each
MaxCalls == 2
MaxPulls == 3
\* frames given to frame_spinner_factory, and the width of each
MaxFrames == 5
MaxFrameWidth == 2
\* scrolling_spinner_factory's chars, length and block
MaxChars == 2
MaxLength == 3
MaxBlock == 2
\* factories given to compound_spinner_factory
MaxFactories == 2
\* factories given to a compound_spinner_factory that is bound twice
MaxPairFactories == 1
\* delayed_spinner_factory's copies and offset
MaxCopies == 3
MaxOffset == 2
\* calls of one spinner one after the other, and next() calls on each
MaxRuns == 2
MaxRunPulls == 7

-----------------------------------------------------------------------------
(* Python values. *)

\* None, and every other falsy length
None == 0

Raise(type) == [exc |-> type]
IsExc(v) == "exc" \in DOMAIN v

Slots == {1, 2}

Max(a, b) == IF a >= b THEN a ELSE b
Abs(a) == IF a < 0 THEN 0 - a ELSE a
\* math.ceil(a / b) for a >= 0, b > 0
Ceil(a, b) == (a + b - 1) \div b

RECURSIVE Concat(_)
\* ''.join(texts)
Concat(texts) ==
    IF texts = <<>> THEN <<>> ELSE Head(texts) \o Concat(Tail(texts))

\* text * n
Times(text, n) == Concat([i \in 1..n |-> text])

\* reversed(text)
Reversed(text) == [i \in 1..Len(text) |-> text[Len(text) + 1 - i]]

-----------------------------------------------------------------------------
(* utils.py, from the specification's section 6. *)

\* the separator cell of the overlay window's tape
NUL == "NUL"

\* restart-wrap(width): every frame of the wrapped generator is fixed to
\* exactly `length` cells, by repeating it and cutting; with no width (and for
\* an empty text, which has nothing to repeat) the frame passes unchanged
repeating(length, text) ==
    IF length = None \/ Len(text) = 0 THEN text
    ELSE [i \in 1..length |-> text[((i - 1) % Len(text)) + 1]]

\* static-ribbon constructor: the tape is, per segment, `gap` cells of the
\* background followed by the segment; the window of `length` cells starts at
\* `initial` and moves by `step` per frame, around the tape
static_sliding_window_factory(sep, gap, contents, length, step, initial) ==
    LET adjusted_sep == [i \in 1..gap |-> sep[((i - 1) % Len(sep)) + 1]]
        content == Concat([k \in 1..Len(contents) |-> adjusted_sep \o contents[k]])
    IN  [content |-> content, length |-> length, step |-> step,
         pos |-> IF Len(content) = 0 THEN 0 ELSE initial % Len(content),
         background |-> <<>>]

\* overlay-ribbon constructor: the same tape with blank separator cells; the
\* background stays in place under the window
overlay_sliding_window_factory(background, gap, contents, length, step, initial) ==
    [static_sliding_window_factory(<<NUL>>, gap, contents, length, step, initial)
        EXCEPT !.background = [i \in 1..length |-> background[((i - 1) % Len(background)) + 1]]]

\* the window's cells at its current position
WindowCells(ribbon) ==
    LET original == Len(ribbon.content)
    IN  IF original = 0 THEN <<>>
        ELSE [i \in 1..ribbon.length |-> ribbon.content[((ribbon.pos + i - 1) % original) + 1]]

\* next(infinite_ribbon): the frame, and the generator after it
RibbonNext(ribbon) ==
    LET original == Len(ribbon.content)
        cells == WindowCells(ribbon)
    IN  [frame |-> IF ribbon.background = <<>> THEN cells
                   ELSE [i \in 1..Len(cells) |->
                            IF cells[i] = NUL THEN ribbon.background[i] ELSE cells[i]],
         ribbon |-> IF original = 0 THEN ribbon
                    ELSE [ribbon EXCEPT !.pos = (ribbon.pos + ribbon.step) % original]]

-----------------------------------------------------------------------------
(* The factories: what each *_spinner_factory call returns. *)

\* a single argument kept as one frame
frames_kept(frames) ==
    IF Len(frames) = 0 THEN Raise("IndexError")
    ELSE [kind |-> "frame", frames |-> frames, natural |-> Len(frames[1])]

\* lines 8-32: one argument is read as one frame per character
frame_spinner_factory(frames) ==
    LET fr == IF Len(frames) = 1
              THEN [i \in 1..Len(frames[1]) |-> <<frames[1][i]>>]
              ELSE frames
    IN  IF Len(fr) = 0 THEN Raise("IndexError")
        ELSE [kind |-> "frame", frames |-> fr, natural |-> Len(fr[1])]

\* lines 35-36, 84-88
scrolling_spinner_factory(chars, length, block, background, right, hiding, overlay) ==
    [kind |-> "scrolling", chars |-> chars, length |-> length, block |-> block,
     background |-> IF Len(background) = 0 THEN <<" ">> ELSE background,
     right |-> right, hiding |-> hiding, overlay |-> overlay,
     step |-> IF right THEN -1 ELSE 1,
     natural |-> IF length # None THEN length ELSE Len(chars)]

\* right_chars mirrored when left_chars is omitted
bouncing_mirrored(right_chars, length, block, left_chars, blank, hiding) ==
    [kind |-> "bouncing", right_chars |-> right_chars, length |-> length,
     block |-> block,
     left_chars |-> IF Len(left_chars) # 0 THEN left_chars ELSE Reversed(right_chars),
     blank |-> blank, hiding |-> hiding, natural |-> length]

\* lines 91-92, 123-126
bouncing_spinner_factory(right_chars, length, block, left_chars, blank, hiding) ==
    [kind |-> "bouncing", right_chars |-> right_chars, length |-> length,
     block |-> block,
     left_chars |-> IF Len(left_chars) # 0 THEN left_chars ELSE right_chars,
     blank |-> blank, hiding |-> hiding, natural |-> length]

RECURSIVE Sum(_)
Sum(ns) == IF ns = <<>> THEN 0 ELSE Head(ns) + Sum(Tail(ns))

\* lines 129, 150-152
compound_spinner_factory(spinner_factories) ==
    [kind |-> "compound", spinner_factories |-> spinner_factories,
     natural |-> Sum([k \in 1..Len(spinner_factories) |-> spinner_factories[k].natural])]

\* lines 155, 173-174
delayed_spinner_factory(spinner_factory, copies, offset) ==
    [kind |-> "delayed", spinner_factory |-> spinner_factory, copies |-> copies,
     offset |-> offset, natural |-> spinner_factory.natural * copies]

\* the first exception among values, or <<>>
FirstExc(vals) ==
    IF \E k \in 1..Len(vals) : IsExc(vals[k])
    THEN <<vals[CHOOSE k \in 1..Len(vals) :
                IsExc(vals[k]) /\ \A j \in 1..(k - 1) : ~IsExc(vals[j])]>>
    ELSE <<>>

RECURSIVE Evaluate(_)
\* a design evaluated as Python evaluates the call: arguments first, left to
\* right, and an exception in one ends the whole expression
Evaluate(d) ==
    CASE d.fn = "frame_spinner_factory" -> frame_spinner_factory(d.frames)
      [] d.fn = "scrolling_spinner_factory" ->
            scrolling_spinner_factory(d.chars, d.length, d.block, d.background,
                                      d.right, d.hiding, d.overlay)
      [] d.fn = "bouncing_spinner_factory" ->
            bouncing_spinner_factory(d.right_chars, d.length, d.block, d.left_chars,
                                     d.blank, d.hiding)
      [] d.fn = "compound_spinner_factory" ->
            LET subs == [k \in 1..Len(d.spinner_factories) |->
                            Evaluate(d.spinner_factories[k])]
            IN  IF FirstExc(subs) # <<>> THEN FirstExc(subs)[1]
                ELSE compound_spinner_factory(subs)
      [] d.fn = "delayed_spinner_factory" ->
            LET sub == Evaluate(d.spinner_factory)
            IN  IF IsExc(sub) THEN sub
                ELSE delayed_spinner_factory(sub, d.copies, d.offset)

-----------------------------------------------------------------------------
(* The spinners: what calling a factory with a width returns.  Every        *)
(* inner_factory takes the heap and gives [val, heap]: the spinner (or the  *)
(* exception raised) and the heap with the generators it made.              *)

\* no generator yet
NoGen == [kind |-> "none"]

\* the last frame left out of the count
frame_cycles_short(f, width, h) ==
    [val |-> [kind |-> "frame", frames |-> f.frames, length_actual |-> width,
              cycles |-> Len(f.frames) - 1],
     heap |-> h]

\* lines 20-26
frame_inner_factory(f, width, h) ==
    [val |-> [kind |-> "frame", frames |-> f.frames, length_actual |-> width,
              cycles |-> Len(f.frames)],
     heap |-> h]

\* the natural width taken before the width given
natural_first(f, width) == IF f.natural # None THEN f.natural ELSE width

\* line 59: length_actual or inner_factory.natural
actual(f, width) == IF width # None THEN width ELSE f.natural

(* Python's float is the IEEE 754 double: a number of Mantissa binary digits *)
(* 1.b2...b53 times 2^exp.  It is kept here as [hi, mid, lo, exp]: the       *)
(* digits as the number hi * 2^(2 * Limb) + mid * 2^Limb + lo, with mid and  *)
(* lo below 2^Limb and hi holding the first digit, which is 1.  Every        *)
(* operation gives the double nearest to the exact result, the one with an   *)
(* even last digit when two are as near.  The operands are below 2^12.       *)

\* the binary digits of a double
Mantissa == 53
\* the binary digits of mid and of lo
Limb == 18

RECURSIVE Normalised(_, _, _)
\* num / den * 2^exp rewritten with 1 <= num / den < 2
Normalised(num, den, exp) ==
    IF num < den THEN Normalised(2 * num, den, exp - 1)
    ELSE IF num >= 2 * den THEN Normalised(num, 2 * den, exp + 1)
    ELSE [num |-> num, den |-> den, exp |-> exp]

RECURSIVE Digits(_, _, _)
\* the next binary digits of rem / den < 1, in groups of the sizes given,
\* each group as a number; last, what is left to divide
Digits(rem, den, sizes) ==
    IF sizes = <<>> THEN <<rem>>
    ELSE <<(rem * 2 ^ Head(sizes)) \div den>>
            \o Digits((rem * 2 ^ Head(sizes)) % den, den, Tail(sizes))

\* the digits plus one in the last place
Incremented(x) ==
    IF x.lo + 1 < 2 ^ Limb THEN [x EXCEPT !.lo = x.lo + 1]
    ELSE IF x.mid + 1 < 2 ^ Limb THEN [x EXCEPT !.mid = x.mid + 1, !.lo = 0]
    ELSE IF x.hi + 1 < 2 ^ (Mantissa - 2 * Limb)
    THEN [x EXCEPT !.hi = x.hi + 1, !.mid = 0, !.lo = 0]
    ELSE [hi |-> 2 ^ (Mantissa - 2 * Limb - 1), mid |-> 0, lo |-> 0, exp |-> x.exp + 1]

\* the double nearest to x plus what was cut off after its last digit: half
\* tells that the first digit cut off is 1, more that a later one is
Rounded(x, half, more) ==
    IF half /\ (more \/ x.lo % 2 = 1) THEN Incremented(x) ELSE x

\* the quotient, d being the digits after its first: 16 more of hi, those
\* of mid and of lo, the one after, and what is left to divide
Divided(exp, d) ==
    Rounded([hi |-> 2 ^ 16 + d[1] * 2 ^ 8 + d[2], mid |-> d[3] * 2 ^ 9 + d[4],
             lo |-> d[5] * 2 ^ 9 + d[6], exp |-> exp],
            d[7] = 1, d[8] # 0)

\* the division normalised
Quotient(n) == Divided(n.exp, Digits(n.num - n.den, n.den, <<8, 8, 9, 9, 9, 9, 1>>))

\* line 58: float(length_actual) / length, both at least 1
float_div(num, den) == Quotient(Normalised(num, den, 0))

RECURSIVE Spare(_)
\* the binary digits hi has more than a double's hi
Spare(hi) == IF hi < 2 ^ (Mantissa - 2 * Limb) THEN 0 ELSE 1 + Spare(hi \div 2)

\* the product hi, mid, lo (hi having n digits to spare) as a double
Fitted(hi, mid, lo, exp, n) ==
    Rounded([hi |-> hi \div 2 ^ n,
             mid |-> (hi % 2 ^ n) * 2 ^ (Limb - n) + mid \div 2 ^ n,
             lo |-> (mid % 2 ^ n) * 2 ^ (Limb - n) + lo \div 2 ^ n,
             exp |-> exp + n],
            n > 0 /\ (lo % 2 ^ n) \div 2 ^ (n - 1) = 1,
            n > 1 /\ lo % 2 ^ (n - 1) # 0)

\* hi, mid and lo of a product, with what is over 2^Limb carried upwards
Carried(hi, mid, lo, exp) ==
    Fitted(hi + (mid + lo \div 2 ^ Limb) \div 2 ^ Limb,
           (mid + lo \div 2 ^ Limb) % 2 ^ Limb, lo % 2 ^ Limb, exp,
           Spare(hi + (mid + lo \div 2 ^ Limb) \div 2 ^ Limb))

\* line 65: block * ratio, block being an integer of at least 1
float_mul(k, x) == Carried(k * x.hi, k * x.mid, k * x.lo, x.exp)

\* line 65: int() of a double, the digits before the binary point (fewer
\* than 2 * Limb of them)
float_int(x) ==
    IF x.exp < 0 THEN 0
    ELSE IF x.exp < Mantissa - 2 * Limb
    THEN x.hi \div 2 ^ (Mantissa - 2 * Limb - 1 - x.exp)
    ELSE x.hi * 2 ^ (x.exp - (Mantissa - 2 * Limb - 1))
            + x.mid \div 2 ^ (Mantissa - Limb - 1 - x.exp)

\* lines 58, 65: int((block or 0) * ratio), the ratio being
\* float(length_actual) / length when both are set and the integer 1
\* otherwise
block_scaled(block, length, width) ==
    IF length # None /\ width # None /\ block # 0
    THEN float_int(float_mul(block, float_div(width, length)))
    ELSE block

\* the scaled block rounded up
block_size_ceil(block, length, width, chars) ==
    LET scaled == IF length # None /\ width # None
                  THEN Ceil(block * width, length)
                  ELSE block
    IN  IF scaled # 0 THEN scaled ELSE Len(chars)

\* line 65: int((block or 0) * ratio) or len(chars)
block_size(block, length, width, chars) ==
    LET scaled == block_scaled(block, length, width)
    IN  IF scaled # 0 THEN scaled ELSE Len(chars)

\* lines 66-69
gap(f, width) ==
    IF f.hiding THEN actual(f, width)
    ELSE Max(0, actual(f, width) - block_size(f.block, f.length, width, f.chars))

\* the whole-string offset in block mode too
initial_whole(f, width) ==
    LET bs == block_size(f.block, f.length, width, f.chars)
    IN  IF ~f.hiding /\ f.right THEN Abs(actual(f, width) - bs) ELSE 0

\* lines 65, 70-71
initial(f, width) ==
    LET bs == block_size(f.block, f.length, width, f.chars)
    IN  IF ~f.hiding /\ f.right
        THEN IF f.block # None THEN 0 - bs ELSE Abs(actual(f, width) - bs)
        ELSE 0

\* lines 73-76
contents(f, width) ==
    LET bs == block_size(f.block, f.length, width, f.chars)
        cs == IF f.right THEN Reversed(f.chars) ELSE f.chars
    IN  IF f.block # None
        THEN [k \in 1..Len(cs) |-> Times(<<cs[k]>>, bs)]
        ELSE <<f.chars>>

\* the block left out of the count
cycles_of_gap(f, width) == gap(f, width)

\* line 81
scrolling_cycles(f, width) ==
    gap(f, width) + block_size(f.block, f.length, width, f.chars)

\* lines 78-79: the window generator this call of inner_factory makes
infinite_ribbon(f, width) ==
    IF f.overlay
    THEN overlay_sliding_window_factory(f.background, gap(f, width), contents(f, width),
                                        actual(f, width), f.step, initial(f, width))
    ELSE static_sliding_window_factory(f.background, gap(f, width), contents(f, width),
                                       actual(f, width), f.step, initial(f, width))

\* the width known at definition time left out of the test
block_without_width(f, width) == f.block # None /\ width = None

\* line 55
block_without_length(f, width) ==
    f.block # None /\ ~(width # None \/ f.length # None)

\* the generator made at the first bind, kept by the factory
ribbon_shared(h) == 1

\* line 79: where in the heap the spinner's window generator lives; every
\* call of inner_factory makes a generator of its own
ribbon_of(h) == Len(h) + 1

\* lines 54-82
scrolling_inner_factory(f, width, h) ==
    IF block_without_length(f, width)
    THEN [val |-> Raise("ValueError"), heap |-> h]
    ELSE [val |-> [kind |-> "scrolling", cycles |-> scrolling_cycles(f, width),
                   infinite_ribbon |-> ribbon_of(h)],
          heap |-> Append(h, infinite_ribbon(f, width))]

\* lines 35-36: the parameters scrolling_spinner_factory declares
scrolling_parameters ==
    {"chars", "length", "block", "background", "right", "hiding", "overlay"}

\* lines 96-99: the keywords bouncing's inner_factory passes to it
bouncing_keywords == {"block", "blank", "right", "hiding"}

\* lines 113-118: abs(length_actual - block_size) or 1 when not hiding
direction_size(f, width, chars) ==
    LET la == actual(f, width)
        bs == block_size(f.block, f.length, width, chars)
    IN  IF f.hiding THEN la + bs
        ELSE IF Abs(la - bs) # 0 THEN Abs(la - bs) ELSE 1

-----------------------------------------------------------------------------
(* Generators.  Calling a spinner makes a generator; next() on it gives      *)
(* [spinner, gen, heap, status, frame, fills]: status is "yield" (frame is   *)
(* the frame, fills the sub-frames a compound zipped into it), "stop"        *)
(* (StopIteration) or "hang" (the call never returns).  The spinner comes    *)
(* back because a compound's players live in the spinner's closure, not in   *)
(* the generator.                                                            *)

\* the generator object of a call of the spinner: no code has run yet
new_generator(sp) ==
    IF sp.kind = "bouncing" THEN [side |-> "right", i |-> 0, sub |-> NoGen]
    ELSE [i |-> 0]

Result(sp, g, h, status, frame, fs) ==
    [spinner |-> sp, gen |-> g, heap |-> h, status |-> status, frame |-> frame,
     fills |-> fs]

\* lines 21-23: yield from frames, under @repeating(length_actual)
frame_inner_spinner(sp, g, h) ==
    IF g.i < Len(sp.frames)
    THEN Result(sp, [i |-> g.i + 1], h, "yield",
                repeating(sp.length_actual, sp.frames[g.i + 1]), <<>>)
    ELSE Result(sp, g, h, "stop", <<>>, <<>>)

\* line 63: yield next(infinite_ribbon), r being what next() gave
Scrolled(sp, g, h, r) ==
    Result(sp, [g EXCEPT !.i = g.i + 1], [h EXCEPT ![sp.infinite_ribbon] = r.ribbon],
           "yield", r.frame, <<>>)

\* lines 61-63: cycles times, the next frame of the spinner's one window
scrolling_inner_spinner(sp, g, h) ==
    IF g.i < sp.cycles
    THEN Scrolled(sp, g, h, RibbonNext(h[sp.infinite_ribbon]))
    ELSE Result(sp, g, h, "stop", <<>>, <<>>)

RECURSIVE inner_spinner(_, _, _)
RECURSIVE spinner_player(_, _)
RECURSIVE zip_players(_, _, _)
RECURSIVE bouncing_inner_spinner(_, _, _)

\* the player's `for c in spinner()` loop ended (r is what next() on its
\* generator gave): `while True` calls the spinner again
Restarted(r) ==
    IF r.status = "stop"
    THEN inner_spinner(r.spinner, new_generator(r.spinner), r.heap)
    ELSE r

\* what next() on the player p gives, r being what its loop came to
Drawn(p, h, r) ==
    IF r.status = "yield"
    THEN [player |-> [spinner |-> r.spinner, gen |-> r.gen, drawn |-> p.drawn + 1],
          heap |-> r.heap, status |-> "yield", frame |-> r.frame, fills |-> r.fills]
    ELSE [player |-> p, heap |-> h, status |-> "hang", frame |-> <<>>, fills |-> <<>>]

\* player-wrap, from the specification's sections 4.6 and 6: next() on the
\* player draws from the generator it is inside of, and calls the spinner
\* again when that one is exhausted.  `drawn` counts the frames drawn.
spinner_player(p, h) ==
    Drawn(p, h,
          Restarted(inner_spinner(p.spinner,
                                  IF p.gen = NoGen THEN new_generator(p.spinner)
                                  ELSE p.gen,
                                  h)))

\* the frame of player k-1 put before the frames of the players k..
Filled(frame, rest) ==
    IF rest.status = "hang" THEN rest
    ELSE [rest EXCEPT !.fills = <<frame>> \o rest.fills]

\* zip goes on to the players after k, r being what player k gave
ZipRest(players, k, h, r) ==
    IF r.status = "hang"
    THEN [players |-> players, heap |-> h, status |-> "hang", fills |-> <<>>]
    ELSE Filled(r.frame, zip_players([players EXCEPT ![k] = r.player], k + 1, r.heap))

\* line 135: what zip draws from the players k.. once range() has given a tick
zip_players(players, k, h) ==
    IF k > Len(players)
    THEN [players |-> players, heap |-> h, status |-> "yield", fills |-> <<>>]
    ELSE ZipRest(players, k, h, spinner_player(players[k], h))

\* line 136: yield ''.join(fills[1:]), under @repeating(length_actual)
Zipped(sp, g, h, r) ==
    IF r.status = "hang" THEN Result(sp, g, h, "hang", <<>>, <<>>)
    ELSE Result([sp EXCEPT !.players = r.players], [g EXCEPT !.i = g.i + 1], r.heap,
                "yield", repeating(sp.length_actual, Concat(r.fills)), r.fills)

\* the players drawn from before range() is asked for a tick
compound_players_first(sp, g, h) ==
    LET r == zip_players(sp.players, 1, h)
    IN  IF g.i < sp.cycles THEN Zipped(sp, g, h, r)
        ELSE IF r.status = "hang" THEN Result(sp, g, h, "hang", <<>>, <<>>)
        ELSE Result([sp EXCEPT !.players = r.players], g, r.heap, "stop", <<>>, <<>>)

\* lines 133-136: zip(range(cycles), *players) ends on range() before it
\* draws from a player
compound_inner_spinner(sp, g, h) ==
    IF g.i < sp.cycles
    THEN Zipped(sp, g, h, zip_players(sp.players, 1, h))
    ELSE Result(sp, g, h, "stop", <<>>, <<>>)

\* lines 106-111: one turn of a `for i, fill in enumerate(...)` loop, r being
\* what the scroll's generator gave
Bounced(sp, g, size, r) ==
    IF r.status = "stop"
    THEN bouncing_inner_spinner(sp,
            [side |-> IF g.side = "right" THEN "left" ELSE "done",
             i |-> 0, sub |-> NoGen], r.heap)
    ELSE IF g.i < size
    THEN Result(sp, [g EXCEPT !.i = g.i + 1, !.sub = r.gen], r.heap, "yield",
                repeating(sp.length_actual, r.frame), <<>>)
    ELSE bouncing_inner_spinner(sp, [g EXCEPT !.i = g.i + 1, !.sub = r.gen], r.heap)

\* lines 104-111: every frame of right_scroll() is drawn, the first
\* right_direction_size of them are yielded; then the same with left_scroll()
bouncing_inner_spinner(sp, g, h) ==
    IF g.side = "done" THEN Result(sp, g, h, "stop", <<>>, <<>>)
    ELSE Bounced(sp, g,
                 IF g.side = "right" THEN sp.right_direction_size
                 ELSE sp.left_direction_size,
                 scrolling_inner_spinner(
                    IF g.side = "right" THEN sp.right_scroll ELSE sp.left_scroll,
                    IF g.sub = NoGen THEN [i |-> 0] ELSE g.sub,
                    h))

\* next() on a generator of the spinner
inner_spinner(sp, g, h) ==
    CASE sp.kind = "frame" -> frame_inner_spinner(sp, g, h)
      [] sp.kind = "scrolling" -> scrolling_inner_spinner(sp, g, h)
      [] sp.kind = "bouncing" -> bouncing_inner_spinner(sp, g, h)
      [] sp.kind = "compound" -> compound_inner_spinner(sp, g, h)

-----------------------------------------------------------------------------
(* The composing factories. *)

RECURSIVE inner_factory(_, _, _)
RECURSIVE instantiate(_, _, _, _)
RECURSIVE discard(_, _, _)
RECURSIVE offset_players(_, _, _, _)

\* lines 96-121, the two scrolls being what the calls of lines 96-99 gave
bouncing_spinner(f, width, right_scroll, left_scroll) ==
    IF IsExc(right_scroll.val) THEN right_scroll
    ELSE IF IsExc(left_scroll.val) THEN left_scroll
    ELSE [val |-> [kind |-> "bouncing",
                   right_scroll |-> right_scroll.val,
                   left_scroll |-> left_scroll.val,
                   right_direction_size |-> direction_size(f, width, f.right_chars),
                   left_direction_size |-> direction_size(f, width, f.left_chars),
                   length_actual |-> actual(f, width),
                   cycles |-> direction_size(f, width, f.right_chars)
                                + direction_size(f, width, f.left_chars)],
          heap |-> left_scroll.heap]

\* lines 98-99, right_scroll being what the call of lines 96-97 gave
bouncing_left(f, width, right_scroll) ==
    bouncing_spinner(f, width, right_scroll,
        scrolling_inner_factory(
            scrolling_spinner_factory(f.left_chars, f.length, f.block, f.blank,
                                      FALSE, f.hiding, FALSE),
            width, right_scroll.heap))

\* lines 95-121: the calls of lines 96-99 pass blank=, which
\* scrolling_spinner_factory does not declare
bouncing_inner_factory(f, width, h) ==
    IF ~(bouncing_keywords \subseteq scrolling_parameters)
    THEN [val |-> Raise("TypeError"), heap |-> h]
    ELSE bouncing_left(f, width,
            scrolling_inner_factory(
                scrolling_spinner_factory(f.right_chars, f.length, f.block, f.blank,
                                          TRUE, f.hiding, FALSE),
                width, h))

\* the spinner of factory k-1 put before the spinners of the factories k..
Listed(spinner_k, rest) == [rest EXCEPT !.spinners = <<spinner_k>> \o rest.spinners]

\* the list goes on after factory k, r being what factory k gave
InstantiateRest(factories, k, width, r) ==
    IF IsExc(r.val) THEN [spinners |-> <<>>, heap |-> r.heap, exc |-> <<r.val>>]
    ELSE Listed(r.val, instantiate(factories, k + 1, width, r.heap))

\* line 141: factory(each_length) for the factories k.., in order; the first
\* exception ends the list
instantiate(factories, k, width, h) ==
    IF k > Len(factories) THEN [spinners |-> <<>>, heap |-> h, exc |-> <<>>]
    ELSE InstantiateRest(factories, k, width, inner_factory(factories[k], width, h))

\* the share rounded down
each_length_floor(width, n) == IF width = None THEN width ELSE width \div n

\* line 140: length_actual and int(math.ceil(length_actual / len(spinner_factories)))
each_length(width, n) == IF width = None THEN width ELSE Ceil(width, n)

\* lines 142-143, 146: max(spinners, key=cycles).cycles
longest_cycles(spinners) ==
    CHOOSE c \in {spinners[k].cycles : k \in 1..Len(spinners)} :
        \A k \in 1..Len(spinners) : spinners[k].cycles <= c

\* line 144: one player per spinner, in order
players_of(spinners) ==
    [k \in 1..Len(spinners) |-> [spinner |-> spinners[k], gen |-> NoGen, drawn |-> 0]]

\* lines 142-148, r being the list of line 141
compound_spinner(width, r) ==
    IF r.exc # <<>> THEN [val |-> r.exc[1], heap |-> r.heap]
    ELSE IF r.spinners = <<>> THEN [val |-> Raise("ValueError"), heap |-> r.heap]
    ELSE [val |-> [kind |-> "compound", length_actual |-> width,
                   cycles |-> longest_cycles(r.spinners),
                   players |-> players_of(r.spinners)],
          heap |-> r.heap]

\* lines 132-148
compound_inner_factory(f, width, h) ==
    IF width # None /\ Len(f.spinner_factories) = 0
    THEN [val |-> Raise("ZeroDivisionError"), heap |-> h]
    ELSE compound_spinner(width,
            instantiate(f.spinner_factories, 1,
                        each_length(width, Len(f.spinner_factories)), h))

\* the copies rounded down
copies_floor(f, width) ==
    IF width # None THEN width \div f.spinner_factory.natural ELSE f.copies

\* the configured copies at every width
copies_configured(f, width) == f.copies

\* lines 165-166
copies_actual(f, width) ==
    IF width # None THEN Ceil(width, f.spinner_factory.natural) ELSE f.copies

\* n - 1 more frames to discard, r being what next(s) gave
DiscardRest(p, n, h, r) ==
    IF r.status = "hang" THEN [player |-> p, heap |-> h, status |-> "hang"]
    ELSE discard(r.player, n - 1, r.heap)

\* lines 169-170: next(s), n times
discard(p, n, h) ==
    IF n <= 0 THEN [player |-> p, heap |-> h, status |-> "yield"]
    ELSE DiscardRest(p, n, h, spinner_player(p, h))

\* the players after k, r being what discarding from player k gave
OffsetRest(players, k, offset, h, r) ==
    IF r.status = "hang"
    THEN [players |-> players, heap |-> h, status |-> "hang"]
    ELSE offset_players([players EXCEPT ![k] = r.player], k + 1, offset, r.heap)

\* lines 168-170: the i-th player (from 0) is advanced i * offset frames
offset_players(players, k, offset, h) ==
    IF k > Len(players) THEN [players |-> players, heap |-> h, status |-> "yield"]
    ELSE OffsetRest(players, k, offset, h, discard(players[k], (k - 1) * offset, h))

\* line 171, r being what the loop of lines 168-170 came to
Offset(result, r) ==
    IF r.status = "hang" THEN [val |-> Raise("never returns"), heap |-> r.heap]
    ELSE [val |-> [result.val EXCEPT !.players = r.players], heap |-> r.heap]

\* lines 168-171, result being what line 167 gave
delayed_spinner(f, result) ==
    IF IsExc(result.val) THEN result
    ELSE Offset(result, offset_players(result.val.players, 1, f.offset, result.heap))

\* lines 162-171
delayed_inner_factory(f, width, h) ==
    IF width # None /\ f.spinner_factory.natural = 0
    THEN [val |-> Raise("ZeroDivisionError"), heap |-> h]
    ELSE delayed_spinner(f,
            compound_inner_factory(
                compound_spinner_factory([k \in 1..copies_actual(f, width) |->
                                            f.spinner_factory]),
                width, h))

\* factory(length_actual)
inner_factory(f, width, h) ==
    CASE f.kind = "frame" -> frame_inner_factory(f, width, h)
      [] f.kind = "scrolling" -> scrolling_inner_factory(f, width, h)
      [] f.kind = "bouncing" -> bouncing_inner_factory(f, width, h)
      [] f.kind = "compound" -> compound_inner_factory(f, width, h)
      [] f.kind = "delayed" -> delayed_inner_factory(f, width, h)

-----------------------------------------------------------------------------
(* The designs the model is run on. *)

Frame(frames) == [fn |-> "frame_spinner_factory", frames |-> frames]
Scrolling(chars, length, block, background, right, hiding, overlay) ==
    [fn |-> "scrolling_spinner_factory", chars |-> chars, length |-> length,
     block |-> block, background |-> background, right |-> right,
     hiding |-> hiding, overlay |-> overlay]
Bouncing(right_chars, length, block, left_chars, hiding) ==
    [fn |-> "bouncing_spinner_factory", right_chars |-> right_chars,
     length |-> length, block |-> block, left_chars |-> left_chars,
     blank |-> <<" ">>, hiding |-> hiding]
Compound(spinner_factories) ==
    [fn |-> "compound_spinner_factory", spinner_factories |-> spinner_factories]
Delayed(spinner_factory, copies, offset) ==
    [fn |-> "delayed_spinner_factory", spinner_factory |-> spinner_factory,
     copies |-> copies, offset |-> offset]

Glyphs ==
    <<"a", "b", "c", "d", "e", "f", "g", "h", "i", "j", "k", "l", "m", "n", "o",
      "p", "q", "r">>

\* n frames of w characters each, all different
Grid(n, w) == [i \in 1..n |-> [j \in 1..w |-> Glyphs[(i - 1) * w + j]]]
\* n frames, the i-th of i characters
Ragged(n) == [i \in 1..n |-> [j \in 1..i |-> Glyphs[i]]]
\* the first n glyphs as one text
Text(n) == [j \in 1..n |-> Glyphs[j]]

FrameDesigns ==
    {Frame(Grid(n, w)) : n \in 0..MaxFrames, w \in 1..MaxFrameWidth}
        \cup {Frame(Ragged(n)) : n \in 2..3}

ScrollingDesigns ==
    {Scrolling(Text(n), length, block, background, right, hiding, overlay) :
        n \in 0..MaxChars, length \in 0..MaxLength, block \in 0..MaxBlock,
        background \in {<<>>, <<"-", ".">>}, right \in BOOLEAN, hiding \in BOOLEAN,
        overlay \in BOOLEAN}
        \cup {Scrolling(<<"x">>, 5, None, <<>>, TRUE, TRUE, FALSE)}

BouncingDesigns ==
    {Bouncing(Text(n), length, block, left_chars, hiding) :
        n \in 1..MaxChars, length \in 1..MaxLength, block \in 0..1,
        left_chars \in {<<>>, <<"y", "z">>}, hiding \in BOOLEAN}

\* what the composing designs are made of
Parts ==
    {Frame(Grid(2, 1)), Frame(Grid(3, 1)), Frame(Grid(5, 1)), Frame(Grid(2, 2)),
     Frame(Ragged(2)),
     Scrolling(Text(1), 3, 0, <<>>, TRUE, TRUE, FALSE),
     Scrolling(Text(2), 2, 1, <<>>, TRUE, TRUE, FALSE),
     Scrolling(Text(2), 0, 0, <<>>, FALSE, FALSE, FALSE),
     Bouncing(Text(1), 3, 0, <<>>, TRUE),
     Compound(<<Frame(Grid(2, 1)), Frame(Grid(3, 1))>>),
     Delayed(Frame(Grid(2, 1)), 2, 1)}

RECURSIVE Tuples(_, _)
\* the sequences over S of length n
Tuples(S, n) ==
    IF n = 0 THEN {<<>>}
    ELSE {Append(t, x) : t \in Tuples(S, n - 1), x \in S}

CompoundDesigns ==
    {Compound(t) : t \in UNION {Tuples(Parts, n) : n \in 0..MaxFactories}}

DelayedDesigns ==
    {Delayed(d, copies, offset) :
        d \in Parts, copies \in 0..MaxCopies, offset \in 0..MaxOffset}

Designs ==
    FrameDesigns \cup ScrollingDesigns \cup BouncingDesigns \cup CompoundDesigns
        \cup DelayedDesigns

-----------------------------------------------------------------------------
(* The state machine. *)

Unset == [kind |-> "unset"]

IsFactory(v) == v # Unset /\ ~IsExc(v)
IsSpinner(v) == v # Unset /\ ~IsExc(v)

\* nothing is constructed yet
Fresh ==
    /\ length_actual \in 0..MaxWidth
    /\ factory = Unset
    /\ heap = <<>>
    /\ spinner = [s \in Slots |-> Unset]
    /\ player = [s \in Slots |-> NoGen]
    /\ stream = [s \in Slots |-> <<>>]
    /\ fills = [s \in Slots |-> <<>>]
    /\ gens = [s \in Slots |-> <<>>]
    /\ outs = [s \in Slots |-> <<>>]
    /\ drawn = [s \in Slots |-> <<>>]

Init == design \in Designs /\ Fresh

\* the style is defined: the design's call expression is evaluated
Construct ==
    /\ factory = Unset
    /\ factory' = Evaluate(design)
    /\ UNCHANGED <<design, length_actual, heap, spinner, player, stream, fills,
                   gens, outs, drawn>>

\* the slot takes what factory(length_actual) gave
Bound(s, r) ==
    /\ spinner' = [spinner EXCEPT ![s] = r.val]
    /\ heap' = r.heap

\* slot s binds the factory: spinner = factory(length_actual)
Bind(s) ==
    /\ IsFactory(factory)
    /\ spinner[s] = Unset
    /\ Bound(s, inner_factory(factory, length_actual, heap))
    /\ UNCHANGED <<design, length_actual, factory, player, stream, fills, gens,
                   outs, drawn>>

\* the reader of slot s's player takes the frame that next() gave
Played(s, r) ==
    /\ r.status = "yield"
    /\ spinner' = [spinner EXCEPT ![s] = r.player.spinner]
    /\ player' = [player EXCEPT ![s] = r.player.gen]
    /\ heap' = r.heap
    /\ stream' = [stream EXCEPT ![s] = Append(@, r.frame)]
    /\ fills' = [fills EXCEPT ![s] = Append(@, r.fills)]

\* next() on slot s's spinner_player(spinner), while it has given fewer
\* than limit frames
Play(s, limit) ==
    /\ IsSpinner(spinner[s])
    /\ Len(stream[s]) < limit
    /\ Played(s, spinner_player([spinner |-> spinner[s], gen |-> player[s],
                                 drawn |-> Len(stream[s])], heap))
    /\ UNCHANGED <<design, length_actual, factory, gens, outs, drawn>>

\* slot s's spinner is called: a new generator
Call(s) ==
    /\ IsSpinner(spinner[s])
    /\ Len(gens[s]) < MaxCalls
    /\ gens' = [gens EXCEPT ![s] =
                    Append(@, [gen |-> new_generator(spinner[s]), stopped |-> FALSE])]
    /\ outs' = [outs EXCEPT ![s] = Append(@, <<>>)]
    /\ UNCHANGED <<design, length_actual, factory, heap, spinner, player, stream,
                   fills, drawn>>

\* the reader of slot s's c-th generator takes what next() gave
Pulled(s, c, r) ==
    /\ r.status # "hang"
    /\ spinner' = [spinner EXCEPT ![s] = r.spinner]
    /\ heap' = r.heap
    /\ gens' = [gens EXCEPT ![s][c] = [gen |-> r.gen, stopped |-> r.status = "stop"]]
    /\ outs' = [outs EXCEPT ![s][c] =
                    IF r.status = "yield" THEN Append(@, r.frame) ELSE @]
    /\ drawn' = [drawn EXCEPT ![s] =
                    IF r.status = "yield" THEN Append(@, r.frame) ELSE @]

\* next() on the c-th generator made from slot s's spinner
Pull(s, c) ==
    /\ c \in 1..Len(gens[s])
    /\ ~gens[s][c].stopped
    /\ Len(outs[s][c]) < MaxPulls
    /\ Pulled(s, c, inner_spinner(spinner[s], gens[s][c].gen, heap))
    /\ UNCHANGED <<design, length_actual, factory, player, stream, fills>>

\* one spinner, played without end
Next ==
    \/ Construct
    \/ Bind(1)
    \/ Play(1, MaxTicks)

Spec == Init /\ [][Next]_vars

\* one spinner, called more than once
NextCalls ==
    \/ Construct
    \/ Bind(1)
    \/ Call(1)
    \/ \E c \in 1..MaxCalls : Pull(1, c)

SpecCalls == Init /\ [][NextCalls]_vars

\* the factory bound twice, the two spinners played in any order
NextPair ==
    \/ Construct
    \/ \E s \in Slots : Bind(s)
    \/ \E s \in Slots : Play(s, MaxPairTicks)

\* the designs bound twice: the compounds of up to MaxPairFactories factories
PairDesigns ==
    FrameDesigns \cup ScrollingDesigns \cup BouncingDesigns \cup DelayedDesigns
        \cup {Compound(t) : t \in UNION {Tuples(Parts, n) : n \in 0..MaxPairFactories}}

InitPair == design \in PairDesigns /\ Fresh

SpecPair == InitPair /\ [][NextPair]_vars

\* slot s's spinner is called again once the call before is exhausted, as a
\* `for c in spinner()` loop inside `while True` does
Recall(s) ==
    /\ IsSpinner(spinner[s])
    /\ Len(gens[s]) < MaxRuns
    /\ gens[s] # <<>> => gens[s][Len(gens[s])].stopped
    /\ gens' = [gens EXCEPT ![s] =
                    Append(@, [gen |-> new_generator(spinner[s]), stopped |-> FALSE])]
    /\ outs' = [outs EXCEPT ![s] = Append(@, <<>>)]
    /\ UNCHANGED <<design, length_actual, factory, heap, spinner, player, stream,
                   fills, drawn>>

\* next() on the generator of the latest call of slot s's spinner
PullLast(s) ==
    /\ gens[s] # <<>>
    /\ ~gens[s][Len(gens[s])].stopped
    /\ Len(outs[s][Len(gens[s])]) < MaxRunPulls
    /\ Pulled(s, Len(gens[s]),
              inner_spinner(spinner[s], gens[s][Len(gens[s])].gen, heap))
    /\ UNCHANGED <<design, length_actual, factory, player, stream, fills>>

\* one spinner, called again and again, each call read before the next
NextRuns ==
    \/ Construct
    \/ Bind(1)
    \/ Recall(1)
    \/ PullLast(1)

SpecRuns == InitPair /\ [][NextRuns]_vars

-----------------------------------------------------------------------------
(* What the claims are stated with. *)

RECURSIVE PlayerAfter(_, _, _)
\* a player and the heap after n frames were drawn from it
PlayerAfter(p, h, n) ==
    IF n = 0 THEN [player |-> p, heap |-> h]
    ELSE LET r == spinner_player(p, h)
         IN  PlayerAfter(r.player, r.heap, n - 1)

\* frame t (from 0) of the endless stream of a spinner that factory f gives
\* at the width, played alone from a heap of its own
SoloFrame(f, width, t) ==
    LET made == inner_factory(f, width, <<>>)
        at == PlayerAfter([spinner |-> made.val, gen |-> NoGen, drawn |-> 0],
                          made.heap, t)
    IN  spinner_player(at.player, at.heap).frame

\* the spinner slot s holds was bound without an exception
Bound1 == IsSpinner(spinner[1])

\* the width compound_spinner_factory's inner_factory binds each factory at
ShareOf(f) == each_length(length_actual, Len(f.spinner_factories))

-----------------------------------------------------------------------------
(* C1 *)

\* C1 as claimed: a compound spinner's cycles is the largest of its
\* sub-spinners' cycles, and its frame at every tick t is the concatenation,
\* in factory order, of frame (t mod cycles_k) of each sub-spinner k (the
\* concatenation being read as fixed to the bound width, as every frame is).
C1_Claimed ==
    (Bound1 /\ design.fn = "compound_spinner_factory") =>
        LET sp == spinner[1]
            n == Len(sp.players)
        IN  /\ \A k \in 1..n : sp.players[k].spinner.cycles <= sp.cycles
            /\ \E k \in 1..n : sp.players[k].spinner.cycles = sp.cycles
            /\ \A t \in 0..(Len(stream[1]) - 1) :
                  stream[1][t + 1] =
                     repeating(length_actual,
                        Concat([k \in 1..n |->
                           SoloFrame(factory.spinner_factories[k], ShareOf(factory),
                                     t % sp.players[k].spinner.cycles)]))

-----------------------------------------------------------------------------
(* C2 *)

\* C2 as claimed: in the endless frame stream of every instance, frame
\* t + cycles equals frame t for every tick t.
C2_Claimed ==
    Bound1 =>
        \A t \in 0..(Len(stream[1]) - 1 - spinner[1].cycles) :
            stream[1][t + spinner[1].cycles + 1] = stream[1][t + 1]

-----------------------------------------------------------------------------
(* C3 *)

\* C3 as claimed: in a delayed instance, copy i has had i * offset frames
\* discarded before the first frame is read, and at every tick t its frame is
\* the frame copy 0 gave at tick (t + i * offset) mod subCycles.
C3_Claimed ==
    (Bound1 /\ design.fn = "delayed_spinner_factory") =>
        LET sp == spinner[1]
            subCycles == sp.players[1].spinner.cycles
        IN  \A i \in 0..(Len(sp.players) - 1) :
                /\ sp.players[i + 1].drawn = i * design.offset + Len(stream[1])
                /\ \A t \in 0..(Len(stream[1]) - 1) :
                      (subCycles > 0 /\ (t + i * design.offset) % subCycles < Len(stream[1]))
                          => fills[1][t + 1][i + 1] =
                                fills[1][((t + i * design.offset) % subCycles) + 1][1]

-----------------------------------------------------------------------------
(* C4 *)

\* C4 as claimed: binding a bouncing builder succeeds; the instance's cycles
\* is the sum of the two direction sizes; each period plays that many frames
\* of a rightward scroll of right_chars and then of a leftward scroll of
\* left_chars, both with the builder's length, block and hiding and its blank
\* for background; for one character, length 3 and hiding, cycles is 8.
C4_Claimed ==
    (design.fn = "bouncing_spinner_factory" /\ spinner[1] # Unset) =>
        LET sp == spinner[1]
            right_size == direction_size(factory, length_actual, factory.right_chars)
            left_size == direction_size(factory, length_actual, factory.left_chars)
            rightward == scrolling_spinner_factory(factory.right_chars, factory.length,
                            factory.block, factory.blank, TRUE, factory.hiding, FALSE)
            leftward == scrolling_spinner_factory(factory.left_chars, factory.length,
                            factory.block, factory.blank, FALSE, factory.hiding, FALSE)
        IN  /\ IsSpinner(sp)
            /\ sp.cycles = right_size + left_size
            /\ (design = Bouncing(Text(1), 3, 0, <<>>, TRUE) /\ length_actual = None)
                    => sp.cycles = 8
            /\ \A t \in 0..(Len(stream[1]) - 1) :
                  stream[1][t + 1] =
                     IF t % sp.cycles < right_size
                     THEN SoloFrame(rightward, length_actual, t % sp.cycles)
                     ELSE SoloFrame(leftward, length_actual,
                                    (t % sp.cycles) - right_size)

-----------------------------------------------------------------------------
(* C5 *)

\* C5 as claimed: every sequence a call of the instance returns gives the
\* same frames, from the instance's frame 0, whatever was drawn from the
\* sequences of earlier calls.
C5_Claimed ==
    Bound1 =>
        \A c \in 1..Len(outs[1]) : \A d \in 1..Len(outs[1]) :
            \A k \in 1..Len(outs[1][c]) :
                k <= Len(outs[1][d]) => outs[1][c][k] = outs[1][d][k]

-----------------------------------------------------------------------------
(* C6 *)

\* the factories whose spinners a compound or delayed spinner's players hold
SubFactories(f, width) ==
    IF f.kind = "compound" THEN f.spinner_factories
    ELSE IF f.kind = "delayed"
    THEN [k \in 1..copies_actual(f, width) |-> f.spinner_factory]
    ELSE <<>>

\* the frames player k had drawn before the first tick
Discarded(f, k) == IF f.kind = "delayed" THEN (k - 1) * f.offset ELSE 0

RECURSIVE FramesOf(_, _, _)
\* the next n frames of a player
FramesOf(p, h, n) ==
    IF n = 0 THEN <<>>
    ELSE LET r == spinner_player(p, h)
         IN  IF r.status = "hang" THEN <<>>
             ELSE <<r.frame>> \o FramesOf(r.player, r.heap, n - 1)

\* the first n frames of the endless stream of a spinner that factory f gives
\* at the width, played alone from a heap of its own
SoloStream(f, width, n) ==
    LET made == inner_factory(f, width, <<>>)
    IN  FramesOf([spinner |-> made.val, gen |-> NoGen, drawn |-> 0], made.heap, n)

\* C6: the factory bound twice at the same width, the two spinners played in
\* any order: each gives the frames it gives when played alone, the two give
\* the same frames, and each player of a compound or delayed spinner gives the
\* frames its factory's spinner gives alone (after the frames discarded).
C6_Independent ==
    \A s \in Slots :
        IsSpinner(spinner[s]) =>
            /\ stream[s] = SoloStream(factory, length_actual, Len(stream[s]))
            /\ \A o \in Slots : \A t \in 1..Len(stream[s]) :
                  t <= Len(stream[o]) => stream[o][t] = stream[s][t]
            /\ LET subs == SubFactories(factory, length_actual)
               IN  \A k \in 1..Len(subs) :
                      LET solo == SoloStream(subs[k],
                                             each_length(length_actual, Len(subs)),
                                             Len(stream[s]) + Discarded(factory, k))
                      IN  \A t \in 1..Len(stream[s]) :
                              fills[s][t][k] = solo[t + Discarded(factory, k)]

\* two spinners of one block-mode scrolling factory, the first played three
\* frames before the second gave its first
C6_Witness ==
    /\ design = Scrolling(Text(2), 2, 1, <<>>, TRUE, TRUE, FALSE)
    /\ length_actual = 2
    /\ IsSpinner(spinner[1]) /\ IsSpinner(spinner[2])
    /\ spinner[1].infinite_ribbon # spinner[2].infinite_ribbon
    /\ Len(stream[1]) = 3
    /\ Len(stream[2]) = 1
    /\ stream[2][1] = stream[1][1]
    /\ heap[1].pos # heap[2].pos

-----------------------------------------------------------------------------
(* C7 *)

\* the width the instance is bound at: the given one, or the natural one
BoundWidth == IF length_actual # None THEN length_actual ELSE factory.natural

\* C7 as claimed: every frame an instance produces has length exactly the
\* bound width (the natural width when none is given).
C7_Claimed ==
    Bound1 => \A t \in 1..Len(stream[1]) : Len(stream[1][t]) = BoundWidth

RECURSIVE Regular(_, _)
\* the builder, bound at the width, involves no frame builder bound at its
\* natural width whose frames differ in width, and no scrolling builder in
\* block mode without characters (lines 73-74: no segments, an empty tape)
Regular(f, width) ==
    CASE f.kind = "frame" ->
            width # None \/ \A k \in 1..Len(f.frames) : Len(f.frames[k]) = f.natural
      [] f.kind = "scrolling" -> f.block = None \/ Len(f.chars) > 0
      [] f.kind = "bouncing" -> f.block = None \/ Len(f.right_chars) > 0
      [] f.kind = "compound" ->
            \A k \in 1..Len(f.spinner_factories) :
                Regular(f.spinner_factories[k],
                        each_length(width, Len(f.spinner_factories)))
      [] f.kind = "delayed" ->
            Regular(f.spinner_factory, each_length(width, copies_actual(f, width)))

\* C7, amended: every frame an instance produces has length exactly the bound
\* width (the natural width when none is given), provided no frame builder
\* involved is bound at its natural width with frames of differing widths and
\* no scrolling builder involved is in block mode with no characters; a compound
\* instance's sub-instances are bound at ceil(W/N) and their concatenation is
\* fixed to W.
C7_FrameWidth ==
    (Bound1 /\ Regular(factory, length_actual)) =>
        /\ \A t \in 1..Len(stream[1]) : Len(stream[1][t]) = BoundWidth
        /\ (factory.kind = "compound" /\ length_actual # None) =>
              \A t \in 1..Len(fills[1]) : \A k \in 1..Len(fills[1][t]) :
                  Regular(factory.spinner_factories[k], ShareOf(factory)) =>
                      Len(fills[1][t][k]) =
                          Ceil(length_actual, Len(factory.spinner_factories))

\* a compound of two at width 3: each sub-frame is 2 long, the frame 3
C7_Witness ==
    /\ design = Compound(<<Frame(Grid(2, 1)),
                           Scrolling(Text(1), 3, 0, <<>>, TRUE, TRUE, FALSE)>>)
    /\ length_actual = 3
    /\ Bound1
    /\ Len(stream[1]) = 2
    /\ Len(stream[1][2]) = 3
    /\ Len(fills[1][2][1]) = 2
    /\ Len(fills[1][2][2]) = 2

-----------------------------------------------------------------------------
(* C8 *)

\* block is given and no width is known, at definition or at bind time
NoWidthKnown == design.block # None /\ design.length = None /\ length_actual = None

\* C8: binding a scrolling builder raises the configuration error exactly
\* when block is given and no width is known at definition or at bind time;
\* the bind call raises it, before any frame or any window generator exists,
\* and in every other case binding gives an instance.
C8_ConfigurationError ==
    (design.fn = "scrolling_spinner_factory" /\ spinner[1] # Unset) =>
        /\ NoWidthKnown <=> spinner[1] = Raise("ValueError")
        /\ NoWidthKnown <=> IsExc(spinner[1])
        /\ ~NoWidthKnown => IsSpinner(spinner[1]) /\ spinner[1].kind = "scrolling"
        /\ IsExc(spinner[1]) => stream[1] = <<>> /\ heap = <<>>

\* block 1 with neither length nor width: the bind raised
C8_Witness ==
    /\ design = Scrolling(Text(2), None, 1, <<>>, TRUE, TRUE, FALSE)
    /\ length_actual = None
    /\ spinner[1] = Raise("ValueError")

-----------------------------------------------------------------------------
(* C9 *)

\* C9 as claimed: no construction ends in an error, a bind ends in an error
\* only for a scrolling builder with block and no width known, and no error
\* comes while frames are produced.
C9_Claimed ==
    /\ ~IsExc(factory)
    /\ \A s \in Slots :
          IsExc(spinner[s]) => design.fn = "scrolling_spinner_factory" /\ NoWidthKnown

-----------------------------------------------------------------------------
(* C10 *)

\* the frames a frame builder is over: a single argument is one frame per
\* character
FramesGiven ==
    IF Len(design.frames) = 1
    THEN [i \in 1..Len(design.frames[1]) |-> <<design.frames[1][i]>>]
    ELSE design.frames

\* C10 as claimed: natural is the width of the first frame, cycles the
\* number of frames, and frame t of the stream is frame (t mod n), verbatim.
C10_Claimed ==
    (design.fn = "frame_spinner_factory" /\ Len(FramesGiven) > 0 /\ factory # Unset) =>
        /\ IsFactory(factory)
        /\ factory.natural = Len(FramesGiven[1])
        /\ Bound1 =>
              /\ spinner[1].cycles = Len(FramesGiven)
              /\ \A t \in 0..(Len(stream[1]) - 1) :
                    stream[1][t + 1] = FramesGiven[(t % Len(FramesGiven)) + 1]

\* C10, amended: natural is the width of the first frame, cycles the number
\* of frames, and frame t of the stream is frame (t mod n), verbatim when no
\* width is given or the frame has the bound width, and fixed to the bound
\* width otherwise.
C10_FrameReplay ==
    (design.fn = "frame_spinner_factory" /\ Len(FramesGiven) > 0 /\ factory # Unset) =>
        /\ IsFactory(factory)
        /\ factory.natural = Len(FramesGiven[1])
        /\ Bound1 =>
              /\ spinner[1].cycles = Len(FramesGiven)
              /\ \A t \in 0..(Len(stream[1]) - 1) :
                    LET f == FramesGiven[(t % Len(FramesGiven)) + 1]
                    IN  /\ (length_actual = None \/ Len(f) = length_actual)
                              => stream[1][t + 1] = f
                        /\ stream[1][t + 1] = repeating(length_actual, f)

\* one string of two characters, read as two frames, at the natural width:
\* the stream is at its fourth frame, the second character
C10_Witness ==
    /\ design = Frame(Grid(1, 2))
    /\ length_actual = None
    /\ Bound1
    /\ spinner[1].cycles = 2
    /\ factory.natural = 1
    /\ Len(stream[1]) = 4
    /\ stream[1] = <<<<"a">>, <<"b">>, <<"a">>, <<"b">>>>

-----------------------------------------------------------------------------
(* C11 *)

RECURSIVE RibbonAfter(_, _)
\* the window generator after n values were read from it
RibbonAfter(ribbon, n) ==
    IF n = 0 THEN ribbon ELSE RibbonAfter(RibbonNext(ribbon).ribbon, n - 1)

\* value j (from 0) of the window generator a bind of the design makes
RibbonValue(j) == RibbonNext(RibbonAfter(infinite_ribbon(factory, length_actual), j)).frame

RECURSIVE RibbonValues(_, _)
\* the next n values of a window generator
RibbonValues(ribbon, n) ==
    IF n = 0 THEN <<>>
    ELSE LET r == RibbonNext(ribbon)
         IN  <<r.frame>> \o RibbonValues(r.ribbon, n - 1)

\* the block size and the gap of the design at the bound width
BlockSize == block_size(design.block, design.length, length_actual, design.chars)
Gap == IF design.hiding THEN BoundWidth ELSE Max(0, BoundWidth - BlockSize)

\* C11: a scrolling instance's cycles is gap + blockSize, the gap being the
\* bound width when hiding and max(0, width - blockSize) otherwise; every call
\* of the instance yields exactly cycles frames and is then exhausted, and
\* the frames yielded, in the order they are yielded, are the successive
\* values of the ribbon; for chars "x", length 5, hiding, rightward, cycles
\* is 6 and the ribbon's values have period 6.
C11_ScrollingCycles ==
    (design.fn = "scrolling_spinner_factory" /\ Bound1) =>
        /\ spinner[1].cycles = Gap + BlockSize
        /\ \A c \in 1..Len(gens[1]) :
              /\ Len(outs[1][c]) <= spinner[1].cycles
              /\ gens[1][c].stopped => Len(outs[1][c]) = spinner[1].cycles
              /\ gens[1][c].gen.i = Len(outs[1][c])
        /\ drawn[1] = RibbonValues(infinite_ribbon(factory, length_actual), Len(drawn[1]))
        /\ (design = Scrolling(<<"x">>, 5, None, <<>>, TRUE, TRUE, FALSE)
                /\ length_actual = None) =>
              /\ spinner[1].cycles = 6
              /\ \A j \in 0..MaxRunPulls : RibbonValue(j + 6) = RibbonValue(j)
              /\ \A j \in 1..5 : RibbonValue(j) # RibbonValue(0)

\* the example, "x" over length 5, hiding, rightward: the first call gave
\* its six frames and is exhausted, the second gave the seventh value of the
\* ribbon, which is the first again
C11_Witness ==
    /\ design = Scrolling(<<"x">>, 5, None, <<>>, TRUE, TRUE, FALSE)
    /\ length_actual = None
    /\ Bound1
    /\ spinner[1].cycles = 6
    /\ Len(gens[1]) = 2
    /\ gens[1][1].stopped
    /\ Len(outs[1][1]) = 6
    /\ Len(outs[1][2]) = 1
    /\ Len(drawn[1]) = 7
    /\ outs[1][2][1] = RibbonValue(6)
    /\ outs[1][2][1] = outs[1][1][1]

-----------------------------------------------------------------------------
(* C12 *)

\* floor(block * ratio) as line 65 computes it, the ratio being
\* width / length when both are known and 1 otherwise
FloorScaled == block_scaled(design.block, design.length, length_actual)

\* the cells of the ribbon's tape that hold a character of chars
GlyphCells ==
    LET tape == heap[spinner[1].infinite_ribbon].content
    IN  Cardinality({i \in 1..Len(tape) :
                        \E j \in 1..Len(design.chars) : tape[i] = design.chars[j]})

\* the segments of the tape: one per character with block, one without
Segments == IF design.block # None THEN Len(design.chars) ELSE 1

\* a scrolling instance is made with this block size: its cycles and the
\* segments of its tape have it
MadeWith(size) ==
    /\ spinner[1].cycles =
          (IF design.hiding THEN BoundWidth ELSE Max(0, BoundWidth - size)) + size
    /\ GlyphCells = Segments * size

\* C12 as claimed: whenever block is given the block size is
\* floor(block * ratio), also where that is 0, and the full width of chars
\* when block is omitted.
C12_Claimed ==
    (design.fn = "scrolling_spinner_factory" /\ Bound1) =>
        MadeWith(IF design.block # None THEN FloorScaled ELSE Len(design.chars))

\* C12, amended: the block size is floor(block * ratio), the product being
\* the one computed in floating point, when block is given and that is at
\* least 1, and the full width of chars when it is 0 or block is omitted;
\* length 10 and block 2 bound at width 20 give block size 4 (and length 11
\* and block 11 bound at width 15 give 14, the product being just under 15).
C12_BlockSize ==
    /\ (design.fn = "scrolling_spinner_factory" /\ Bound1) =>
          MadeWith(IF design.block # None /\ FloorScaled >= 1 THEN FloorScaled
                   ELSE Len(design.chars))
    /\ block_size(2, 10, 20, Text(2)) = 4
    /\ block_size(11, 11, 15, Text(2)) = 14

\* block 1 of length 2 bound at width 1: floor(1 * 1/2) is 0, and the
\* instance is made with block size 2, the width of chars
C12_Witness ==
    /\ design = Scrolling(Text(2), 2, 1, <<>>, TRUE, TRUE, FALSE)
    /\ length_actual = 1
    /\ Bound1
    /\ FloorScaled = 0
    /\ spinner[1].cycles = 3
    /\ GlyphCells = 4

-----------------------------------------------------------------------------
(* C13 *)

RECURSIVE Sized(_)
\* the builder involves no frame builder with an empty first frame, no
\* scrolling builder with neither characters nor a length, and no delayed
\* builder of no copies
Sized(f) ==
    CASE f.kind = "frame" -> Len(f.frames[1]) > 0
      [] f.kind = "scrolling" -> Len(f.chars) > 0 \/ f.length # None
      [] f.kind = "bouncing" -> Len(f.right_chars) > 0 \/ f.length # None
      [] f.kind = "compound" ->
            \A k \in 1..Len(f.spinner_factories) : Sized(f.spinner_factories[k])
      [] f.kind = "delayed" -> f.copies >= 1 /\ Sized(f.spinner_factory)

\* C13 as claimed: every instance has cycles >= 1 and its builder natural >= 1,
\* for every configuration constructed and bound without error.
C13_Claimed ==
    Bound1 => spinner[1].cycles >= 1 /\ factory.natural >= 1

\* C13, amended: every instance has cycles >= 1 and its builder natural >= 1,
\* for every configuration constructed and bound without error in which no
\* frame builder has an empty first frame, no scrolling builder has neither
\* characters nor a length, and no delayed builder is configured with 0
\* copies; the players of a compound instance hold such instances too.
C13_Positive ==
    (Bound1 /\ Sized(factory)) =>
        /\ spinner[1].cycles >= 1
        /\ factory.natural >= 1
        /\ spinner[1].kind = "compound" =>
              \A k \in 1..Len(spinner[1].players) :
                  spinner[1].players[k].spinner.cycles >= 1

\* two characters scrolled whole, not hiding, at width 1: the block is wider
\* than the width, the gap is 0 and cycles is 2
C13_Witness ==
    /\ design = Scrolling(Text(2), None, None, <<>>, TRUE, FALSE, FALSE)
    /\ length_actual = 1
    /\ Bound1
    /\ BlockSize > BoundWidth
    /\ spinner[1].cycles = 2
    /\ factory.natural = 2

-----------------------------------------------------------------------------
(* C14 *)

\* C14 as claimed: with left_chars omitted, the characters of a bouncing
\* builder's leftward pass are the mirror of right_chars.
C14_Claimed ==
    (design.fn = "bouncing_spinner_factory" /\ IsFactory(factory)
        /\ design.left_chars = <<>>) =>
            factory.left_chars = Reversed(design.right_chars)

\* C14, amended: with left_chars omitted, the characters of a bouncing
\* builder's leftward pass are right_chars itself, in the order given; with
\* left_chars given they are left_chars.
C14_LeftDefault ==
    (design.fn = "bouncing_spinner_factory" /\ factory # Unset) =>
        /\ IsFactory(factory)
        /\ factory.left_chars =
              (IF design.left_chars = <<>> THEN design.right_chars ELSE design.left_chars)
        /\ factory.right_chars = design.right_chars

\* a bouncing builder over two characters with left_chars omitted
C14_Witness ==
    /\ design = Bouncing(Text(2), 3, None, <<>>, TRUE)
    /\ IsFactory(factory)
    /\ factory.left_chars = <<"a", "b">>
    /\ factory.left_chars # Reversed(design.right_chars)

-----------------------------------------------------------------------------
(* C15 *)

\* the width an instance was made for: the one a frame or compound instance
\* fixes its frames to (none when bound without), the window of a scrolling one
MadeFor(sp) ==
    IF sp.kind = "scrolling" THEN heap[sp.infinite_ribbon].length
    ELSE sp.length_actual

\* the kind of instance a builder gives
InstanceKind(f) == IF f.kind = "delayed" THEN "compound" ELSE f.kind

\* C15: a compound builder's natural is the sum of its sub-builders'
\* naturals; bound at width W, each of its N sub-builders is instantiated at
\* ceil(W / N), and with the width omitted each is instantiated with no width
\* (a scrolling one so at its natural); the instance holds one player per
\* sub-builder reference, in builder order.
C15_CompoundShares ==
    (design.fn = "compound_spinner_factory" /\ IsFactory(factory)) =>
        LET subs == factory.spinner_factories
            N == Len(subs)
        IN  /\ factory.natural = Sum([k \in 1..N |-> subs[k].natural])
            /\ Bound1 =>
                  /\ Len(spinner[1].players) = N
                  /\ \A k \in 1..N :
                        LET sp == spinner[1].players[k].spinner
                        IN  /\ sp.kind = InstanceKind(subs[k])
                            /\ subs[k].kind = "frame" => sp.frames = subs[k].frames
                            /\ length_actual = None
                                  \/ MadeFor(sp) = Ceil(length_actual, N)
                            /\ length_actual = None =>
                                  MadeFor(sp) = (IF sp.kind = "scrolling"
                                                 THEN subs[k].natural ELSE None)
                            /\ sp.cycles = inner_factory(subs[k],
                                    IF length_actual = None THEN None
                                    ELSE Ceil(length_actual, N), <<>>).val.cycles

\* two sub-builders bound at width 3: each is instantiated at 2
C15_Witness ==
    /\ design = Compound(<<Scrolling(Text(1), 3, None, <<>>, TRUE, TRUE, FALSE),
                           Frame(Grid(3, 1))>>)
    /\ length_actual = 3
    /\ Bound1
    /\ factory.natural = 4
    /\ Len(spinner[1].players) = 2
    /\ MadeFor(spinner[1].players[1].spinner) = 2
    /\ MadeFor(spinner[1].players[2].spinner) = 2
    /\ spinner[1].players[2].spinner.frames = Grid(3, 1)

-----------------------------------------------------------------------------
(* C16 *)

\* C16: a delayed builder's natural is its sub-builder's natural times the
\* configured copies, whatever width it is bound at; an instance bound at a
\* known width W holds ceil(W / sub-builder natural) players, one bound with
\* no width holds the configured copies, each player an instance of the
\* sub-builder.
C16_DelayedCopies ==
    (design.fn = "delayed_spinner_factory" /\ IsFactory(factory)) =>
        LET sub == factory.spinner_factory
        IN  /\ factory.natural = sub.natural * design.copies
            /\ Bound1 =>
                  /\ Len(spinner[1].players) =
                        (IF length_actual # None THEN Ceil(length_actual, sub.natural)
                         ELSE design.copies)
                  /\ \A k \in 1..Len(spinner[1].players) :
                        spinner[1].players[k].spinner.kind = InstanceKind(sub)

\* three copies configured, two made at width 2; the natural stays 3
C16_Witness ==
    /\ design = Delayed(Frame(Grid(2, 1)), 3, 1)
    /\ length_actual = 2
    /\ Bound1
    /\ Len(spinner[1].players) = 2
    /\ factory.natural = 3

-----------------------------------------------------------------------------
(* C17 *)

\* the initial offset, the step and the segments as C17 states them
OffsetStated ==
    IF design.hiding \/ ~design.right THEN 0
    ELSE IF design.block # None THEN 0 - BlockSize
    ELSE Abs(BoundWidth - BlockSize)
StepStated == IF design.right THEN 0 - 1 ELSE 1
SegmentsStated ==
    LET n == Len(design.chars)
    IN  IF design.block # None
        THEN [k \in 1..n |->
                [c \in 1..BlockSize |->
                    design.chars[IF design.right THEN n + 1 - k ELSE k]]]
        ELSE <<design.chars>>

\* the window generator made from what C17 states
RibbonStated ==
    IF design.overlay
    THEN overlay_sliding_window_factory(factory.background, Gap, SegmentsStated,
                                        BoundWidth, StepStated, OffsetStated)
    ELSE static_sliding_window_factory(factory.background, Gap, SegmentsStated,
                                       BoundWidth, StepStated, OffsetStated)

\* C17: a scrolling instance's ribbon is made with initial offset 0 when
\* hiding or leftward, and when non-hiding and rightward with -blockSize in
\* block mode and |boundWidth - blockSize| in whole-string mode; with step -1
\* rightward and +1 leftward; and in block mode with one segment per
\* character of chars, each blockSize long, in reverse character order when
\* rightward.  The ribbon of the instance is the one made from these, read
\* once per frame drawn.
C17_RibbonArguments ==
    (design.fn = "scrolling_spinner_factory" /\ Bound1) =>
        /\ heap[spinner[1].infinite_ribbon] = RibbonAfter(RibbonStated, Len(stream[1]))
        /\ factory.step = StepStated

\* block mode, non-hiding, rightward: "ab" in blocks of 1 at width 2 is the
\* tape " b a", first read one cell before its start
C17_Witness ==
    /\ design = Scrolling(Text(2), 2, 1, <<>>, TRUE, FALSE, FALSE)
    /\ length_actual = None
    /\ Bound1
    /\ stream[1] = <<>>
    /\ OffsetStated = 0 - 1
    /\ heap[spinner[1].infinite_ribbon].content = <<" ", "b", " ", "a">>
    /\ heap[spinner[1].infinite_ribbon].pos = 3
    /\ heap[spinner[1].infinite_ribbon].step = 0 - 1

-----------------------------------------------------------------------------
(* C18 *)

RECURSIVE InStep(_, _, _, _)
\* k frames being drawn from the instance sp that factory f gave at the
\* width, each of its players has had k frames drawn from it after those
\* a delayed factory discarded, and so on inside the players
InStep(sp, f, width, k) ==
    sp.kind = "compound" =>
        \A j \in 1..Len(sp.players) :
            /\ sp.players[j].drawn = Discarded(f, j) + k
            /\ InStep(sp.players[j].spinner, SubFactories(f, width)[j],
                      each_length(width, Len(sp.players)), sp.players[j].drawn)

\* C18: after a compound instance has given k frames, over any number of
\* restarts of its pass of `cycles` frames, every one of its players has had
\* exactly k frames drawn from it, after those a delayed factory discarded
\* at the bind: no sub-frame is skipped or drawn twice where the pass ends.
C18_PlayersInStep ==
    Bound1 => InStep(spinner[1], factory, length_actual, Len(stream[1]))

\* two copies of a three-frame spinner, the second one frame ahead: after 7
\* frames, two restarts of the pass, the players have had 7 and 8 drawn
C18_Witness ==
    /\ design = Delayed(Frame(Grid(3, 1)), 2, 1)
    /\ length_actual = None
    /\ Bound1
    /\ spinner[1].cycles = 3
    /\ Len(stream[1]) = 7
    /\ spinner[1].players[1].drawn = 7
    /\ spinner[1].players[2].drawn = 8

-----------------------------------------------------------------------------
(* C19 *)

\* C19: a delayed builder over a sub-builder of natural n >= 1, bound at a
\* width W >= 1, binds each of its ceil(W / n) copies at
\* ceil(W / ceil(W / n)), which is never more than n, and the copies
\* together cover the width: copies * the width of each >= W.
C19_CopiesCover ==
    (design.fn = "delayed_spinner_factory" /\ Bound1 /\ length_actual # None) =>
        LET n == factory.spinner_factory.natural
            W == length_actual
            copies == Len(spinner[1].players)
        IN  /\ n >= 1 /\ W >= 1 /\ copies >= 1
            /\ \A k \in 1..copies :
                  LET each == MadeFor(spinner[1].players[k].spinner)
                  IN  /\ each = Ceil(W, Ceil(W, n))
                      /\ each <= n
                      /\ copies * each >= W

\* width 4 over a natural of 3: two copies of width 2
C19_Witness ==
    /\ design = Delayed(Scrolling(Text(1), 3, 0, <<>>, TRUE, TRUE, FALSE), 1, 0)
    /\ length_actual = 4
    /\ Bound1
    /\ factory.spinner_factory.natural = 3
    /\ Len(spinner[1].players) = 2
    /\ MadeFor(spinner[1].players[1].spinner) = 2
    /\ MadeFor(spinner[1].players[2].spinner) = 2

=============================================================================
